---- MODULE Spec2Model ----
(***************************************************************************)
(* State-machine model of PixelPinch's concurrent compression              *)
(* orchestration: the WorkerPool, the module singleton getWorkerPool, the  *)
(* AsyncSemaphore, the per-item pipeline compressFileWithWorker, the batch *)
(* orchestrator compressFiles and the page handlers that drive them.       *)
(*                                                                         *)
(* One action is one browser macrotask together with the microtasks it     *)
(* schedules: the continuation of an await on an already settled promise   *)
(* runs before any worker message, timer or file read can be delivered, so *)
(* it is part of the step that settled the promise.  Real asynchrony       *)
(* (worker handshakes, worker results, file reads, timers, user input) is  *)
(* one action each.                                                        *)
(***************************************************************************)
EXTENDS Integers, Sequences, FiniteSets, TLC

\* ------------------------------------------------------------------ bounds
MaxCores == 3      \* navigator.hardwareConcurrency ranges over 2..MaxCores
NumFiles == 2      \* files the user adds
MaxRuns  == 2      \* compressFiles invocations (first batch, then retries)
MaxRunsSingle == 3 \* the same on a device whose worker slider has one position
MaxCallers == 4    \* direct callers of a stand-alone AsyncSemaphore
MaxPermits == 2    \* permits of the stand-alone AsyncSemaphore
MaxTasks == 5      \* compress() calls made directly on a stand-alone WorkerPool
MaxPoolWorkers == 2 \* maxWorkers of the stand-alone WorkerPool
MaxOriginalSize == 40   \* originalSize of a result item, in bytes
MaxCompressedSize == 60 \* compressedSize of a result item, in bytes
MaxHardwareConcurrency == 12 \* navigator.hardwareConcurrency when devices are compared
MaxMessages == 4   \* messages one worker context receives
MaxRequestIds == 2 \* request ids of the 'compress' messages it receives

VARIABLES
    hardwareConcurrency,  \* navigator.hardwareConcurrency
    mobile,               \* what isMobileDevice() answers on this device
    settings,             \* Home: settings (parallelWorkers, format)
    files,                \* Home: files (sequence of ImageFile)
    lastRunSettings,      \* Home: lastRunSettings (NoSettings = null)
    isProcessing,         \* Home: isProcessing
    poolInstance,         \* worker-pool.ts singleton (0 = null)
    poolSize,             \* worker-pool.ts singleton size (0 = null)
    pool,                 \* every WorkerPool object constructed so far
    worker,               \* every Worker context constructed so far
    inits,                \* initialize() invocations awaiting their handshakes
    run,                  \* every compressFiles invocation so far
    published,            \* history: per file, the statuses shown for it, in order
    client,               \* direct callers of WorkerPool.compress(), by task
    poolTrace,            \* history of the direct calls: submission, dispatch,
                          \* completion order and queueLength after each event
    sem,                  \* a stand-alone AsyncSemaphore
    caller,               \* its callers: "idle", "waiting", "holding", "released"
    semTrace,             \* history: who blocked, who was resumed, in order
    shown,                \* one result item on its way to FileItem's badge
    context               \* one worker context running compression.worker.ts

vars == <<hardwareConcurrency, mobile, settings, lastRunSettings, files, isProcessing,
          poolInstance, poolSize, pool, worker, inits, run, published, client,
          poolTrace, sem, caller, semTrace, shown, context>>

appVars == <<hardwareConcurrency, mobile, settings, lastRunSettings, files, isProcessing,
             poolInstance, poolSize, pool, worker, inits, run, published, client>>

semVars == <<sem, caller, semTrace>>

\* What the page never touches: the stand-alone semaphore, the history of
\* direct pool calls, the result item followed to its badge and the worker
\* context looked at from the inside.
aloneVars == <<sem, caller, semTrace, poolTrace, shown, context>>

\* ----------------------------------------------------------------- helpers
Max(a, b) == IF a >= b THEN a ELSE b

Min(a, b) == IF a <= b THEN a ELSE b

Range(q) == {q[k] : k \in DOMAIN q}

\* Request ids: a pipeline uses its file's id, direct caller t uses t.
ItemIds == 1..Max(NumFiles, MaxTasks)

NoCall == <<0, 0>>

NoSettings == [parallelWorkers |-> 0, format |-> "none"]

\* ------------------------------------------------- IEEE 754 double numbers
\* A positive double is [bits, exp]: the 53 bits of its significand, most
\* significant (always 1) first, and the exponent of that first bit.  The
\* operations round to nearest, ties to even, as JavaScript's / and * do.
RECURSIVE ShiftsUp(_, _)
ShiftsUp(a, b) == IF 2 * b <= a THEN 1 + ShiftsUp(a, 2 * b) ELSE 0

RECURSIVE ShiftsDown(_, _)
ShiftsDown(a, b) == IF a >= b THEN 0 ELSE 1 + ShiftsDown(2 * a, b)

RECURSIVE Pow2(_)
Pow2(n) == IF n = 0 THEN 1 ELSE 2 * Pow2(n - 1)

\* The n lowest bits of k, most significant first.
BitsOf(k, n) == [j \in 1..n |-> (k \div Pow2(n - j)) % 2]

RECURSIVE ToInt(_)
ToInt(bits) ==
    IF bits = <<>> THEN 0
    ELSE 2 * ToInt(SubSeq(bits, 1, Len(bits) - 1)) + bits[Len(bits)]

\* bits without its leading zeros (bits holds a 1).
Normalize(bits) ==
    SubSeq(bits, CHOOSE k \in DOMAIN bits :
                     bits[k] = 1 /\ \A j \in 1..(k - 1) : bits[j] = 0,
           Len(bits))

\* Binary long division, nine bits at a time: the next quotient bits of r / b
\* (r < b) until there are at least n of them, and the remainder left.
RECURSIVE LongDivision(_, _, _, _)
LongDivision(bits, r, b, n) ==
    IF Len(bits) >= n THEN [bits |-> bits, r |-> r]
    ELSE LongDivision(bits \o BitsOf((512 * r) \div b, 9), (512 * r) % b, b, n)

\* bits + 1.
Increment(bits) ==
    IF \A k \in DOMAIN bits : bits[k] = 1
    THEN <<1>> \o [k \in DOMAIN bits |-> 0]
    ELSE LET z == CHOOSE k \in DOMAIN bits :
                      bits[k] = 0 /\ \A j \in (k + 1)..Len(bits) : bits[j] = 1
         IN  [k \in DOMAIN bits |-> IF k < z THEN bits[k] ELSE IF k = z THEN 1 ELSE 0]

\* bits (a multiple of ten of them) times the small factor k, plus carry, ten
\* bits at a time from the least significant end.
RECURSIVE MulSmall(_, _, _)
MulSmall(bits, k, carry) ==
    IF bits = <<>> THEN BitsOf(carry, 10)
    ELSE LET d == ToInt(SubSeq(bits, Len(bits) - 9, Len(bits))) * k + carry
         IN  MulSmall(SubSeq(bits, 1, Len(bits) - 10), k, d \div 1024)
                 \o BitsOf(d % 1024, 10)

\* The double nearest to the exact value whose leading bits are `bits` (54 or
\* more, the first one 1, of exponent exp), sticky telling whether non-zero
\* bits follow them.
RoundToDouble(bits, exp, sticky) ==
    LET keep == SubSeq(bits, 1, 53)
        rest == sticky \/ \E k \in 55..Len(bits) : bits[k] = 1
        up == bits[54] = 1 /\ (rest \/ keep[53] = 1)
        inc == Increment(keep)
    IN  IF ~up THEN [bits |-> keep, exp |-> exp]
        ELSE IF Len(inc) = Len(keep) THEN [bits |-> inc, exp |-> exp]
        ELSE [bits |-> SubSeq(inc, 1, 53), exp |-> exp + 1]

\* a / b for integers a, b > 0.
Divide(a, b) ==
    LET up == IF a >= b THEN ShiftsUp(a, b) ELSE 0
        down == IF a >= b THEN 0 ELSE ShiftsDown(a, b)
        num == a * Pow2(down)
        den == b * Pow2(up)
        q == LongDivision(<<1>>, num - den, den, 54)
    IN  RoundToDouble(q.bits, up - down, q.r # 0)

\* x * k for a double x and an integer k in 1..1023.
Times(x, k) ==
    LET product == Normalize(MulSmall(<<0, 0, 0, 0, 0, 0, 0>> \o x.bits, k, 0))
    IN  RoundToDouble(Append(product, 0), x.exp + (Len(product) - 53), FALSE)

\* Math.round(x) and Math.round(-x) for a double x > 0 below 2^52: the nearest
\* integer, a fraction of exactly one half rounding towards +Infinity.
MathRound(x, negative) ==
    LET whole == IF x.exp >= 0 THEN ToInt(SubSeq(x.bits, 1, x.exp + 1)) ELSE 0
        half == x.exp + 2 >= 1 /\ x.bits[x.exp + 2] = 1
        below == \E k \in 1..53 : k >= x.exp + 3 /\ x.bits[k] = 1
    IN  IF negative
        THEN (IF half /\ below THEN -(whole + 1) ELSE -whole)
        ELSE (IF half THEN whole + 1 ELSE whole)

\* ---------------------------------------------------------------- percentSaved
\* calculatePercentSaved(original, compressed), for sizes in bytes:
\* Math.round(((original - compressed) / original) * 100).
calculatePercentSaved(original, compressed) ==
    IF original = 0 THEN 0
    ELSE IF original = compressed THEN 0
    ELSE IF original > compressed
    THEN MathRound(Times(Divide(original - compressed, original), 100), FALSE)
    ELSE MathRound(Times(Divide(compressed - original, original), 100), TRUE)

\* A badge that prints every percentSaved.
Badge_withoutSame(percentSaved) == <<"-", percentSaved, "%">>

\* FileItem's badge for a 'done' item with a percentSaved.
Badge(percentSaved) ==
    IF percentSaved > 0 THEN <<"-", percentSaved, "%">> ELSE <<"Same">>

\* ------------------------------------------------------ concurrency governor
getMaxParallelWorkers ==
    Max(1, (IF hardwareConcurrency = 0 THEN 4 ELSE hardwareConcurrency) - 1)

\* A default of min(2, max) on mobile devices.
getDefaultParallelWorkers_two ==
    IF mobile THEN Min(2, getMaxParallelWorkers) ELSE getMaxParallelWorkers

getDefaultParallelWorkers ==
    IF mobile THEN Min(3, getMaxParallelWorkers) ELSE getMaxParallelWorkers

\* ----------------------------------------------------------- AsyncSemaphore
\* A semaphore is [permits, waitQueue]; waitQueue holds the resolvers of the
\* blocked acquire() calls, named by who is blocked.
AsyncSemaphore(n) == [permits |-> n, waitQueue |-> <<>>]

\* An acquire() that never blocks (the permit test is missing).
acquire_neverBlocks(sm, who) ==
    [sem |-> [sm EXCEPT !.permits = @ - 1], granted |-> TRUE]

\* acquire(): the semaphore afterwards, and in granted whether the call
\* returned at once (a permit was free) or left its resolver in the queue.
acquire(sm, who) ==
    IF sm.permits > 0
    THEN [sem |-> [sm EXCEPT !.permits = @ - 1], granted |-> TRUE]
    ELSE [sem |-> [sm EXCEPT !.waitQueue = Append(@, who)], granted |-> FALSE]

\* A release() that resumes the newest waiter (pop instead of shift).
release_newestFirst(sm) ==
    IF sm.waitQueue # <<>>
    THEN [sem |-> [sm EXCEPT !.waitQueue = SubSeq(@, 1, Len(@) - 1)],
          next |-> <<sm.waitQueue[Len(sm.waitQueue)]>>]
    ELSE [sem |-> [sm EXCEPT !.permits = @ + 1], next |-> <<>>]

\* A release() that wakes the oldest waiter and returns the permit to the
\* counter as well.
release_alsoCounts(sm) ==
    IF sm.waitQueue # <<>>
    THEN [sem |-> [sm EXCEPT !.waitQueue = Tail(@), !.permits = @ + 1],
          next |-> <<Head(sm.waitQueue)>>]
    ELSE [sem |-> [sm EXCEPT !.permits = @ + 1], next |-> <<>>]

\* release(): the semaphore afterwards, and in next the waiter it resumed
\* (<<>> when nobody waited and the permit went back to the counter).
release(sm) ==
    IF sm.waitQueue # <<>>
    THEN [sem |-> [sm EXCEPT !.waitQueue = Tail(@)], next |-> <<Head(sm.waitQueue)>>]
    ELSE [sem |-> [sm EXCEPT !.permits = @ + 1], next |-> <<>>]

\* ------------------------------------------------------------- data shapes
\* ImageFile.  name is the file name split at its last dot, originalSize the
\* file's size (the k-th file dropped is k.png, k bytes long).  error: "none"
\* (undefined) or the message the catch block captured.  compressedBlob names
\* the worker task whose bytes the blob holds, NoCall when there is no blob.
ImageFile(id) ==
    [id |-> id, file |-> TRUE, name |-> [base |-> id, ext |-> "png"],
     originalSize |-> id, status |-> "pending", error |-> "none",
     compressedBlob |-> NoCall]

NoFile ==
    [id |-> 0, file |-> FALSE, name |-> [base |-> 0, ext |-> "none"],
     originalSize |-> 0, status |-> "none", error |-> "none",
     compressedBlob |-> NoCall]

\* A QueuedTask: the request's id and the resolver of the promise that
\* compress() returned, named by the pipeline <<run, index>> that awaits it.
NoTask == [id |-> 0, call |-> NoCall]

NoEntry == [worker |-> 0, callback |-> NoCall]

\* A direct caller of compress(): where it is, the first response its promise
\* was resolved with, how often its task was posted to a worker and how often
\* its resolver was called.
NoClient == [pc |-> "idle", response |-> "none", posts |-> 0, answers |-> 0]

NoTrace == [submitted |-> <<>>, dispatched |-> <<>>, completed |-> <<>>,
            queueLength |-> <<>>]

WorkerPool(n) ==
    [maxWorkers |-> n, isInitialized |-> FALSE, workers |-> <<>>,
     availableWorkers |-> <<>>, taskQueue |-> <<>>,
     pendingTasks |-> [id \in ItemIds |-> NoEntry]]

\* The mutable program state as one record, so that a handler's sequential
\* code is a composition of state transformers.
St ==
    [files |-> files, isProcessing |-> isProcessing,
     poolInstance |-> poolInstance, poolSize |-> poolSize, pool |-> pool,
     worker |-> worker, inits |-> inits, run |-> run, published |-> published,
     client |-> client]

Apply(s) ==
    /\ files' = s.files
    /\ isProcessing' = s.isProcessing
    /\ poolInstance' = s.poolInstance
    /\ poolSize' = s.poolSize
    /\ pool' = s.pool
    /\ worker' = s.worker
    /\ inits' = s.inits
    /\ run' = s.run
    /\ published' = s.published
    /\ client' = s.client

\* ------------------------------------------------------------ page: updateFile
\* setFiles(prev => prev.map(...)): the entry with f's id becomes f, and f's
\* status is what the page shows for that file from now on.
updateFile(s, f) ==
    [s EXCEPT !.files = [k \in DOMAIN s.files |->
                            IF s.files[k].id = f.id THEN f ELSE s.files[k]],
              !.published = [k \in DOMAIN s.files |->
                                IF s.files[k].id = f.id
                                THEN Append(s.published[k], f.status)
                                ELSE s.published[k]]]

\* ------------------------------------------------- per-item pipeline, part 1
\* onProgress(f) in the pipeline of item i of run r: the page's updateFile;
\* the history progress keeps what this pipeline published, in order.
onProgress(s, r, i, f) ==
    [updateFile(s, f) EXCEPT !.run[r].item[i].progress = Append(@, f)]

\* compressFileWithWorker up to its first await: publish 'processing' and
\* start prepareFile.
startItem(s, r, i) ==
    [onProgress(s, r, i, [s.run[r].files[i] EXCEPT !.status = "processing"])
        EXCEPT !.run[r].item[i].pc = "preparing"]

\* A result array filled in the order in which the items ended.
Results_byCompletion(rn) ==
    [k \in DOMAIN rn.order |-> rn.item[rn.order[k]].ret]

\* compressFiles' result mapping over Promise.allSettled: by input index.
Results(rn) == [i \in DOMAIN rn.files |-> rn.item[i].ret]

\* Promise.all in place of Promise.allSettled, with failed items rejecting:
\* the batch rejects as soon as one item has ended in 'error'.
settle_rejectsOnError(s, r) ==
    IF \E i \in DOMAIN s.run[r].item : s.run[r].item[i].ret.status = "error"
    THEN [s EXCEPT !.run[r].pc = "rejected", !.isProcessing = FALSE]
    ELSE IF \A i \in DOMAIN s.run[r].item : s.run[r].item[i].pc = "returned"
    THEN [s EXCEPT !.run[r].pc = "resolved",
                   !.run[r].results = Results(s.run[r]),
                   !.isProcessing = FALSE]
    ELSE s

\* Promise.allSettled resolves once every per-item promise has settled; the
\* caller's finally then clears isProcessing.
settle(s, r) ==
    IF \A i \in DOMAIN s.run[r].item : s.run[r].item[i].pc = "returned"
    THEN [s EXCEPT !.run[r].pc = "resolved",
                   !.run[r].results = Results(s.run[r]),
                   !.isProcessing = FALSE]
    ELSE s

\* A per-file function that releases in its catch block and again in its
\* finally block.
releasePermit_twice(s, r) ==
    LET rel1 == release(s.run[r].sem)
        s1 == [s EXCEPT !.run[r].sem = rel1.sem]
        s2 == IF rel1.next # <<>> THEN startItem(s1, r, rel1.next[1]) ELSE s1
        rel2 == release(s2.run[r].sem)
        s3 == [s2 EXCEPT !.run[r].sem = rel2.sem]
    IN  IF rel2.next # <<>> THEN startItem(s3, r, rel2.next[1]) ELSE s3

\* A per-file function without its finally block.
releasePermit_missing(s, r) == s

\* The finally block of compressFiles' per-file function: release the permit;
\* a woken waiter resumes into compressFileWithWorker.
releasePermit(s, r) ==
    LET rel == release(s.run[r].sem)
        s1 == [s EXCEPT !.run[r].sem = rel.sem]
    IN  IF rel.next # <<>> THEN startItem(s1, r, rel.next[1]) ELSE s1

\* A pipeline that returns its final item without publishing it.
finishItem_silent(s, r, i, f, cause) ==
    LET s1 == [s EXCEPT !.run[r].item[i].pc = "returned",
                        !.run[r].item[i].ret = f,
                        !.run[r].item[i].cause = cause,
                        !.run[r].order = Append(@, i)]
    IN  settle(releasePermit(s1, r), r)

\* The pipeline publishes and returns its final item f.  cause records what
\* ended the pipeline ("success" or "compression": the worker's result;
\* "timeout"; "prepare"; "init": compress() rejected), and run[r].order the
\* order in which items ended.
finishItem(s, r, i, f, cause) ==
    LET s1 == [onProgress(s, r, i, f) EXCEPT !.run[r].item[i].pc = "returned",
                                             !.run[r].item[i].ret = f,
                                             !.run[r].item[i].cause = cause,
                                             !.run[r].order = Append(@, i)]
    IN  settle(releasePermit(s1, r), r)

\* The result item: the name with its extension replaced by the output
\* format's, the original file kept for re-compression.
doneFile(f, format, payload) ==
    [id |-> f.id, file |-> f.file,
     name |-> [base |-> f.name.base,
               ext |-> IF format = "webp" THEN "webp" ELSE "jpg"],
     originalSize |-> f.originalSize, status |-> "done", error |-> "none",
     compressedBlob |-> payload.producer]

\* What a rejected await or a throw hands to the catch block: an Error with
\* its message, or (isError FALSE) some other value.
Error(message) == [isError |-> TRUE, message |-> message]

NotAnError == [isError |-> FALSE, message |-> "none"]

\* The catch block of compressFileWithWorker:
\* {...imageFile, status: 'error', error: error instanceof Error ? error.message : 'Unknown error'}
errorFile(f, error) ==
    [f EXCEPT !.status = "error",
              !.error = IF error.isError THEN error.message ELSE "Unknown error"]

\* The resolver of compress()'s promise is called with payload: the promise
\* takes the first value only, and the pipeline resumes only if its timeout
\* has not already won the race.
resolvePipeline(s, call, payload) ==
    LET r == call[1]
        i == call[2]
        it == s.run[r].item[i]
        s0 == [s EXCEPT !.run[r].item[i].answers = @ + 1]
        s1 == IF it.response = NoCall
              THEN [s0 EXCEPT !.run[r].item[i].response = payload.producer]
              ELSE s0
    IN  IF it.pc # "awaiting" THEN s1
        ELSE IF payload.status = "error"
        THEN finishItem(s1, r, i,
                        errorFile(s.run[r].files[i],
                                  Error(IF payload.error # ""
                                        THEN payload.error
                                        ELSE "Compression failed")),
                        "compression")
        ELSE finishItem(s1, r, i,
                        doneFile(s.run[r].files[i], s.run[r].format, payload),
                        "success")

\* pending.callback(message.payload): the resolver of a pipeline's compress()
\* call, or of a direct caller's (call <<0, t>>), whose promise keeps the first
\* response it is given.
resolveCall(s, call, payload) ==
    IF call[1] # 0 THEN resolvePipeline(s, call, payload)
    ELSE [s EXCEPT !.client[call[2]] =
                      [@ EXCEPT !.pc = "settled",
                                !.response = IF @ = "none" THEN payload.status ELSE @,
                                !.answers = @ + 1]]

\* ---------------------------------------------------------------- WorkerPool
\* worker.postMessage({type: 'compress', ...}) for the task of call.
notePost(s, call) ==
    IF call[1] = 0
    THEN [s EXCEPT !.client[call[2]].posts = @ + 1]
    ELSE [s EXCEPT !.run[call[1]].item[call[2]].posts = @ + 1]

\* A processNextTask that takes the newest queued task (pop instead of shift).
processNextTask_newestFirst(s, p) ==
    LET P == s.pool[p] IN
    IF P.taskQueue = <<>> \/ P.availableWorkers = <<>> THEN s
    ELSE LET w == P.availableWorkers[Len(P.availableWorkers)]
             task == P.taskQueue[Len(P.taskQueue)]
         IN  [notePost(s, task.call) EXCEPT
                !.pool[p].availableWorkers = SubSeq(@, 1, Len(@) - 1),
                !.pool[p].taskQueue = SubSeq(@, 1, Len(@) - 1),
                !.pool[p].pendingTasks[task.id] =
                    [worker |-> w, callback |-> task.call],
                !.worker[w].tasks =
                    IF s.worker[w].state = "terminated" THEN @ ELSE @ \cup {task}]

\* A processNextTask that reads the last available worker without popping it.
processNextTask_keepsWorker(s, p) ==
    LET P == s.pool[p] IN
    IF P.taskQueue = <<>> \/ P.availableWorkers = <<>> THEN s
    ELSE LET w == P.availableWorkers[Len(P.availableWorkers)]
             task == Head(P.taskQueue)
         IN  [notePost(s, task.call) EXCEPT
                !.pool[p].taskQueue = Tail(@),
                !.pool[p].pendingTasks[task.id] =
                    [worker |-> w, callback |-> task.call],
                !.worker[w].tasks =
                    IF s.worker[w].state = "terminated" THEN @ ELSE @ \cup {task}]

processNextTask(s, p) ==
    LET P == s.pool[p] IN
    IF P.taskQueue = <<>> \/ P.availableWorkers = <<>> THEN s
    ELSE LET w == P.availableWorkers[Len(P.availableWorkers)]
             task == Head(P.taskQueue)
         IN  [notePost(s, task.call) EXCEPT
                !.pool[p].availableWorkers = SubSeq(@, 1, Len(@) - 1),
                !.pool[p].taskQueue = Tail(@),
                !.pool[p].pendingTasks[task.id] =
                    [worker |-> w, callback |-> task.call],
                !.worker[w].tasks =
                    IF s.worker[w].state = "terminated" THEN @ ELSE @ \cup {task}]

\* A listener without the `if (pending)` test: calling the callback of a
\* missing entry throws, and the rest of the handler does not run.
handleWorkerMessage_assumesPending(s, p, w, payload) ==
    LET pending == s.pool[p].pendingTasks[payload.id]
    IN  IF pending.worker = 0 THEN s
        ELSE processNextTask(
                 [resolveCall(s, pending.callback, payload)
                     EXCEPT !.pool[p].pendingTasks[payload.id] = NoEntry,
                            !.pool[p].availableWorkers = Append(@, w)], p)

\* A listener that returns the worker to the pool only after a success.
handleWorkerMessage_keepsWorkerOnError(s, p, w, payload) ==
    LET pending == s.pool[p].pendingTasks[payload.id]
        s1 == IF pending.worker # 0
              THEN [resolveCall(s, pending.callback, payload)
                       EXCEPT !.pool[p].pendingTasks[payload.id] = NoEntry]
              ELSE s
        s2 == IF payload.status = "error" THEN s1
              ELSE [s1 EXCEPT !.pool[p].availableWorkers = Append(@, w)]
    IN  processNextTask(s2, p)

handleWorkerMessage(s, p, w, payload) ==
    LET pending == s.pool[p].pendingTasks[payload.id]
        s1 == IF pending.worker # 0
              THEN [resolveCall(s, pending.callback, payload)
                       EXCEPT !.pool[p].pendingTasks[payload.id] = NoEntry]
              ELSE s
        s2 == [s1 EXCEPT !.pool[p].availableWorkers = Append(@, w)]
    IN  processNextTask(s2, p)

\* initialize(): nothing when already initialized; otherwise one Worker per
\* maxWorkers is constructed and sent 'init', and the call awaits them all.
initialize(s, p, awaiter) ==
    IF s.pool[p].isInitialized THEN s
    ELSE LET n == Len(s.worker)
             m == s.pool[p].maxWorkers
         IN  [s EXCEPT
                !.worker = @ \o [k \in 1..m |->
                                    [state |-> "init", pool |-> p, tasks |-> {}]],
                !.inits = @ \cup {[pool |-> p, ws |-> [k \in 1..m |-> n + k],
                                   awaiter |-> awaiter]}]

\* The promise executor of compress(): queue the task and try to dispatch.
submit(s, p, task) ==
    processNextTask([s EXCEPT !.pool[p].taskQueue = Append(@, task)], p)

compress(s, p, task) ==
    IF ~s.pool[p].isInitialized
    THEN initialize(s, p, [kind |-> "call", run |-> task.call[1], task |-> task])
    ELSE submit(s, p, task)

terminate(s, p) ==
    LET ws == Range(s.pool[p].workers) IN
    [s EXCEPT
        !.worker = [w \in DOMAIN s.worker |->
                       IF w \in ws
                       THEN [s.worker[w] EXCEPT !.state = "terminated", !.tasks = {}]
                       ELSE s.worker[w]],
        !.pool[p].workers = <<>>,
        !.pool[p].availableWorkers = <<>>,
        !.pool[p].taskQueue = <<>>,
        !.pool[p].pendingTasks = [id \in ItemIds |-> NoEntry],
        !.pool[p].isInitialized = FALSE]

\* getWorkerPool(maxWorkers): the pool it returns is s'.poolInstance.
getWorkerPool(s, requestedSize) ==
    LET s1 == IF s.poolInstance # 0 /\ s.poolSize # requestedSize
              THEN [terminate(s, s.poolInstance)
                       EXCEPT !.poolInstance = 0, !.poolSize = 0]
              ELSE s
    IN  IF s1.poolInstance = 0
        THEN [s1 EXCEPT !.pool = Append(@, WorkerPool(requestedSize)),
                        !.poolInstance = Len(s1.pool) + 1,
                        !.poolSize = requestedSize]
        ELSE s1

\* -------------------------------------------------------------- compressFiles
OptimalConcurrencyLimit == 6

\* settings.parallelWorkers || getOptimalConcurrencyLimit()
concurrencyLimit(n) == IF n # 0 THEN n ELSE OptimalConcurrencyLimit

\* files.map(async file => { await semaphore.acquire(); ... }): every per-file
\* function runs to its acquire() in input order; the ones that got a permit
\* resume into compressFileWithWorker.
RECURSIVE acquireAll(_, _, _)
acquireAll(s, r, i) ==
    IF i > Len(s.run[r].files) THEN s
    ELSE LET acq == acquire(s.run[r].sem, i)
             s1 == [s EXCEPT !.run[r].sem = acq.sem,
                             !.run[r].item[i].pc = "blocked"]
         IN  acquireAll(IF acq.granted THEN startItem(s1, r, i) ELSE s1,
                        r, i + 1)

\* compressFiles after `await pool.initialize()`.
beginBatch(s, r) ==
    acquireAll([s EXCEPT !.run[r].pc = "running",
                         !.run[r].sem =
                            AsyncSemaphore(concurrencyLimit(s.run[r].settings))],
               r, 1)

\* posts counts the 'compress' messages posted for the call's task, answers
\* the calls of its resolver, progress lists what the pipeline published.
NewItem ==
    [pc |-> "created", pool |-> 0, ret |-> NoFile, response |-> NoCall,
     cause |-> "none", posts |-> 0, answers |-> 0, progress |-> <<>>]

\* compressFiles(files, settings, onProgress) up to its first await, and past
\* it when the pool is already initialized.
compressFiles(s, fs, cs, by) ==
    LET n == cs.parallelWorkers
        s1 == getWorkerPool(s, n)
        p == s1.poolInstance
        r == Len(s.run) + 1
        s2 == [s1 EXCEPT !.run = Append(@,
                  [pc |-> "init", by |-> by, files |-> fs, settings |-> n,
                   format |-> cs.format,
                   pool |-> p, sem |-> AsyncSemaphore(0),
                   item |-> [i \in DOMAIN fs |-> NewItem], results |-> <<>>,
                   order |-> <<>>])]
    IN  IF s1.pool[p].isInitialized
        THEN beginBatch(s2, r)
        ELSE initialize(s2, p, [kind |-> "run", run |-> r, task |-> NoTask])

\* ------------------------------------------------------------------- actions
\* Home.handleFilesAdded: k valid files are dropped.
handleFilesAdded(k) ==
    /\ ~isProcessing
    /\ Len(files) + k <= NumFiles
    /\ files' = files \o [j \in 1..k |-> ImageFile(Len(files) + j)]
    /\ published' = published \o [j \in 1..k |-> <<"pending">>]
    /\ UNCHANGED <<hardwareConcurrency, mobile, settings, lastRunSettings,
                   isProcessing, poolInstance, poolSize, pool, worker, inits,
                   run, client, aloneVars>>

\* SettingsPanel.handleWorkersChange: the slider runs from 1 to
\* getMaxParallelWorkers() and is disabled while processing.
handleWorkersChange(n) ==
    /\ ~isProcessing
    /\ files # <<>>
    /\ n \in 1..getMaxParallelWorkers
    /\ n # settings.parallelWorkers
    /\ settings' = [settings EXCEPT !.parallelWorkers = n]
    /\ UNCHANGED <<hardwareConcurrency, mobile, files, lastRunSettings,
                   isProcessing, poolInstance, poolSize, pool, worker, inits,
                   run, published, client, aloneVars>>

\* SettingsPanel.handleFormatChange: the format buttons, disabled while
\* processing.
handleFormatChange(format) ==
    /\ ~isProcessing
    /\ files # <<>>
    /\ format # settings.format
    /\ settings' = [settings EXCEPT !.format = format]
    /\ UNCHANGED <<hardwareConcurrency, mobile, files, lastRunSettings,
                   isProcessing, poolInstance, poolSize, pool, worker, inits,
                   run, published, client, aloneVars>>

hasUnsavedChanges ==
    /\ lastRunSettings # NoSettings
    /\ lastRunSettings # settings

\* How many compressFiles invocations a behaviour explores on this device.
RunLimit == IF getMaxParallelWorkers = 1 THEN MaxRunsSingle ELSE MaxRuns

pendingFiles == SelectSeq(files, LAMBDA f : f.status = "pending")

\* A re-run reset that leaves the previous output attached.
resetForRecompress_keepsBlob(f) == [f EXCEPT !.status = "pending", !.error = "none"]

resetForRecompress(f) ==
    [f EXCEPT !.status = "pending", !.error = "none", !.compressedBlob = NoCall]

\* Home.handleStartCompression: the button is enabled when files are pending
\* or the settings changed since the last run, and nothing is processing.
handleStartCompression ==
    /\ ~isProcessing
    /\ Len(run) < RunLimit
    /\ files # <<>>
    /\ pendingFiles # <<>> \/ hasUnsavedChanges
    /\ LET recompress == pendingFiles = <<>>
           toProcess == IF recompress
                        THEN [k \in DOMAIN files |-> resetForRecompress(files[k])]
                        ELSE pendingFiles
           s0 == [St EXCEPT !.files = IF recompress THEN toProcess ELSE @,
                            !.published =
                                IF recompress
                                THEN [k \in DOMAIN files |-> Append(@[k], "pending")]
                                ELSE @,
                            !.isProcessing = TRUE]
       IN  Apply(compressFiles(s0, toProcess, settings, "start"))
    /\ lastRunSettings' = settings
    /\ UNCHANGED <<hardwareConcurrency, mobile, settings, aloneVars>>

\* Home.handleRetryFile: the retry button of an 'error' item.
handleRetryFile(k) ==
    /\ k \in DOMAIN files
    /\ Len(run) < RunLimit
    /\ files[k].status = "error"
    /\ files[k].file
    /\ LET resetFile == [files[k] EXCEPT !.status = "pending", !.error = "none"]
           s0 == [updateFile(St, resetFile) EXCEPT !.isProcessing = TRUE]
       IN  Apply(compressFiles(s0, <<resetFile>>, settings, "retry"))
    /\ UNCHANGED <<hardwareConcurrency, mobile, settings, lastRunSettings, aloneVars>>

\* Every worker of one initialize() call has answered 'ready': Promise.all
\* resolves, initialize() finishes, and its awaiter (compressFiles or
\* compress) continues.
InitDone(e) ==
    /\ e \in inits
    /\ LET p == e.pool
           s1 == [St EXCEPT
                    !.inits = @ \ {e},
                    !.worker = [w \in DOMAIN worker |->
                                   IF w \in Range(e.ws)
                                   THEN [worker[w] EXCEPT !.state = "ready"]
                                   ELSE worker[w]],
                    !.pool[p].workers = e.ws,
                    !.pool[p].availableWorkers = e.ws,
                    !.pool[p].isInitialized = TRUE]
       IN  Apply(IF e.awaiter.kind = "call"
                 THEN submit(s1, p, e.awaiter.task)
                 ELSE IF e.awaiter.kind = "run"
                 THEN beginBatch(s1, e.awaiter.run)
                 ELSE s1)
    /\ UNCHANGED <<hardwareConcurrency, mobile, settings, lastRunSettings, aloneVars>>

\* The caller of a rejected compressFiles: handleStartCompression catches and
\* logs, handleRetryFile lets the rejection go; both clear isProcessing in
\* their finally.
rejectBatch(s, r) ==
    [s EXCEPT !.run[r].pc = "rejected", !.isProcessing = FALSE]

\* A pipeline without its catch block, under Promise.all: the rejection of
\* compress() leaves compressFileWithWorker and rejects the batch.
rejectCall_throws(s, call) ==
    LET r == call[1]
        i == call[2]
    IN  IF s.run[r].item[i].pc # "awaiting" THEN s
        ELSE [s EXCEPT !.run[r].item[i].pc = "returned",
                       !.run[r].item[i].cause = "init",
                       !.run[r].pc = "rejected",
                       !.isProcessing = FALSE]

\* compress() rejected because its initialize() did: withTimeout's race
\* rejects unless the timer already won, and the catch block reports it.
rejectCall(s, call) ==
    LET r == call[1]
        i == call[2]
    IN  IF s.run[r].item[i].pc # "awaiting" THEN s
        ELSE finishItem(s, r, i, errorFile(s.run[r].files[i], Error("init")), "init")

\* An initialize() that goes on with the workers that did answer 'ready'.
failHandshake_usesTheRest(s, e, k, how) ==
    LET rest == SelectSeq(e.ws, LAMBDA w : w # e.ws[k]) IN
    [s EXCEPT
        !.inits = @ \ {e},
        !.worker = [w \in DOMAIN s.worker |->
                       IF w = e.ws[k]
                       THEN [s.worker[w] EXCEPT !.state =
                                IF how = "init-error" THEN "terminated" ELSE "failed"]
                       ELSE IF w \in Range(rest)
                       THEN [s.worker[w] EXCEPT !.state = "ready"]
                       ELSE s.worker[w]],
        !.pool[e.pool].workers = rest,
        !.pool[e.pool].availableWorkers = rest,
        !.pool[e.pool].isInitialized = TRUE]

\* createWorker's promise for worker k of initialize() call e rejects: the
\* worker answered 'init-error' (and is terminated) or raised an error event
\* (and is left as it is).  Promise.all rejects at once, so initialize() throws
\* before it assigns workers, availableWorkers or isInitialized; the workers
\* of this call that are still initializing are referenced by nothing.
failHandshake(s, e, k, how) ==
    [s EXCEPT
        !.inits = @ \ {e},
        !.worker[e.ws[k]].state =
            IF how = "init-error" THEN "terminated" ELSE "failed"]

\* One worker of an initialize() call fails its handshake, and the rejection
\* reaches whoever awaited initialize().
InitFail(e, k, how) ==
    /\ e \in inits
    /\ k \in DOMAIN e.ws
    /\ LET s1 == failHandshake(St, e, k, how)
       IN  Apply(IF e.awaiter.kind = "call"
                 THEN rejectCall(s1, e.awaiter.task.call)
                 ELSE rejectBatch(s1, e.awaiter.run))
    /\ UNCHANGED <<hardwareConcurrency, mobile, settings, lastRunSettings, aloneVars>>

\* prepareFile resolves: the pipeline builds the request, asks getWorkerPool()
\* for the pool, calls compress() and starts the timeout race.
PrepareDone(r, i) ==
    /\ r \in DOMAIN run
    /\ i \in DOMAIN run[r].item
    /\ run[r].item[i].pc = "preparing"
    /\ LET s1 == getWorkerPool(St, getDefaultParallelWorkers)
           p == s1.poolInstance
           s2 == [s1 EXCEPT !.run[r].item[i].pc = "awaiting",
                            !.run[r].item[i].pool = p]
       IN  Apply(compress(s2, p, [id |-> run[r].files[i].id, call |-> <<r, i>>]))
    /\ UNCHANGED <<hardwareConcurrency, mobile, settings, lastRunSettings, aloneVars>>

\* What prepareFile can reject with: an Error of heic2any, of its dynamic
\* import or of blob.arrayBuffer() (whose message is the platform's, possibly
\* empty), or a value that is not an Error.
PrepareErrors == {Error("prepare"), Error(""), NotAnError}

\* prepareFile throws (HEIC conversion or the read fails): the catch block.
PrepareFail(r, i, thrown) ==
    /\ r \in DOMAIN run
    /\ i \in DOMAIN run[r].item
    /\ run[r].item[i].pc = "preparing"
    /\ thrown \in PrepareErrors
    /\ Apply(finishItem(St, r, i, errorFile(run[r].files[i], thrown), "prepare"))
    /\ UNCHANGED <<hardwareConcurrency, mobile, settings, lastRunSettings, aloneVars>>

\* withTimeout's timer fires before compress()'s promise resolved.
Timeout(r, i) ==
    /\ r \in DOMAIN run
    /\ i \in DOMAIN run[r].item
    /\ run[r].item[i].pc = "awaiting"
    /\ Apply(finishItem(St, r, i, errorFile(run[r].files[i], Error("timeout")), "timeout"))
    /\ UNCHANGED <<hardwareConcurrency, mobile, settings, lastRunSettings, aloneVars>>

\* compressImage's CompressionResponse: 'success', or 'error' with the
\* message of what decoding or encoding threw (which may be empty).
Success == [status |-> "success", error |-> "none"]

Failure(message) == [status |-> "error", error |-> message]

Responses == {Success, Failure("compression"), Failure("")}

\* The worker's 'result' message for one of its tasks reaches the listener
\* that createWorker bound to it.
onmessage(s, w, task, response) ==
    handleWorkerMessage([s EXCEPT !.worker[w].tasks = @ \ {task}],
                        s.worker[w].pool, w,
                        [id |-> task.id, status |-> response.status,
                         error |-> response.error, producer |-> task.call])

\* A worker answers one 'compress' message with its 'result', and the pool's
\* listener bound to that worker handles it.
WorkerResult(w, response) ==
    /\ w \in DOMAIN worker
    /\ worker[w].state = "ready"
    /\ response \in Responses
    /\ \E task \in worker[w].tasks : Apply(onmessage(St, w, task, response))
    /\ UNCHANGED <<hardwareConcurrency, mobile, settings, lastRunSettings, aloneVars>>

\* --------------------------------------------- WorkerPool, called directly
\* The direct tasks posted to a worker of pool p and not yet answered.
directInFlight(s, p) ==
    {t \in 1..MaxTasks :
        \E w \in DOMAIN s.worker :
            /\ s.worker[w].pool = p
            /\ [id |-> t, call |-> <<0, t>>] \in s.worker[w].tasks}

queueLength(s, p) == Len(s.pool[p].taskQueue)

\* The history after a step from St to s: what was dispatched and completed
\* in the step, and the queueLength it left.
observe(s, p, submitted) ==
    LET posted == directInFlight(s, p) \ directInFlight(St, p)
        answered == {t \in 1..MaxTasks : s.client[t].answers > client[t].answers}
        AsSeq(S) == IF S = {} THEN <<>> ELSE <<CHOOSE t \in S : TRUE>>
    IN  [submitted |-> poolTrace.submitted \o submitted,
         dispatched |-> poolTrace.dispatched \o AsSeq(posted),
         completed |-> poolTrace.completed \o AsSeq(answered),
         queueLength |-> Append(poolTrace.queueLength, queueLength(s, p))]

\* A caller awaits pool.initialize() on the stand-alone pool.
PoolInitialize ==
    /\ poolInstance # 0
    /\ ~pool[poolInstance].isInitialized
    /\ inits = {}
    /\ Apply(initialize(St, poolInstance,
                        [kind |-> "direct", run |-> 0, task |-> NoTask]))
    /\ UNCHANGED <<hardwareConcurrency, mobile, settings, lastRunSettings, aloneVars>>

\* Caller t calls compress() on the initialized pool; callers are numbered in
\* the order in which they call.
PoolCompress(t) ==
    /\ poolInstance # 0
    /\ pool[poolInstance].isInitialized
    /\ t = Len(poolTrace.submitted) + 1
    /\ t <= MaxTasks
    /\ LET s0 == [St EXCEPT !.client[t].pc = "waiting"]
           s == compress(s0, poolInstance, [id |-> t, call |-> <<0, t>>])
       IN  /\ Apply(s)
           /\ poolTrace' = observe(s, poolInstance, <<t>>)
    /\ UNCHANGED <<hardwareConcurrency, mobile, settings, lastRunSettings, semVars,
                   shown, context>>

\* A worker of the stand-alone pool answers the task it was posted.
PoolResult(w, status) ==
    /\ w \in DOMAIN worker
    /\ worker[w].state = "ready"
    /\ \E task \in worker[w].tasks :
          LET s1 == [St EXCEPT !.worker[w].tasks = @ \ {task}]
              s == handleWorkerMessage(s1, worker[w].pool, w,
                       [id |-> task.id, status |-> status, error |-> "none",
                        producer |-> task.call])
          IN  /\ Apply(s)
              /\ poolTrace' = observe(s, worker[w].pool, <<>>)
    /\ UNCHANGED <<hardwareConcurrency, mobile, settings, lastRunSettings, semVars,
                   shown, context>>

\* ------------------------------------------------------------ one result item
\* No result item is being followed.
NotShown ==
    [pc |-> "none", originalSize |-> 0, compressedSize |-> 0, percentSaved |-> 0,
     badge |-> <<>>]

\* compressFileWithWorker builds the result item of a successful compression
\* from imageFile.originalSize and response.compressedSize.
BuildResult ==
    /\ shown.pc = "compressing"
    /\ shown' = [shown EXCEPT
                    !.pc = "done",
                    !.percentSaved =
                        calculatePercentSaved(shown.originalSize, shown.compressedSize)]
    /\ UNCHANGED <<appVars, poolTrace, semVars, context>>

\* FileItem renders the 'done' item.
FileItem ==
    /\ shown.pc = "done"
    /\ shown' = [shown EXCEPT !.pc = "rendered", !.badge = Badge(shown.percentSaved)]
    /\ UNCHANGED <<appVars, poolTrace, semVars, context>>

\* ------------------------------------------- AsyncSemaphore, called directly
\* Callers[c] calls acquire() once; the history semTrace records the order in
\* which calls blocked, the order in which blocked calls were resumed, and in
\* late the calls that blocked after a release() had handed a permit over.
SemAcquire(c) ==
    /\ caller[c] = "idle"
    /\ sem' = acquire(sem, c).sem
    /\ caller' = [caller EXCEPT ![c] = IF acquire(sem, c).granted THEN "holding"
                                                                  ELSE "waiting"]
    /\ semTrace' = IF acquire(sem, c).granted THEN semTrace
                   ELSE [semTrace EXCEPT
                            !.blocked = Append(@, c),
                            !.late = IF semTrace.resumed # <<>> THEN @ \cup {c} ELSE @]
    /\ UNCHANGED <<appVars, poolTrace, shown, context>>

SemRelease(c) ==
    /\ caller[c] = "holding"
    /\ sem' = release(sem).sem
    /\ LET woken == release(sem).next IN
       /\ caller' = [d \in DOMAIN caller |->
                        IF d = c THEN "released"
                        ELSE IF woken # <<>> /\ d = woken[1] THEN "holding"
                        ELSE caller[d]]
       /\ semTrace' = IF woken = <<>> THEN semTrace
                      ELSE [semTrace EXCEPT !.resumed = Append(@, woken[1])]
    /\ UNCHANGED <<appVars, poolTrace, shown, context>>

\* ------------------------------------------ compression.worker.ts, inside
\* A worker context: wasmBaseUrl ("" until initCodecs sets it), the messages
\* it has received so far, the 'compress' handlers that are inside
\* compressImage (by the number of the message each handles, with the await
\* it is at), and every message it has posted, in order.
NewContext == [wasmBaseUrl |-> "", received |-> <<>>, jobs |-> {}, posted |-> <<>>]

\* Messages the pool can post to a context.
WorkerMessages ==
    {[type |-> "init", id |-> 0]} \cup
    {[type |-> "compress", id |-> id] : id \in 1..MaxRequestIds}

\* self.postMessage(response) by the handler of message k.
postMessage(ctx, k, response) ==
    [ctx EXCEPT !.posted = Append(@, [response EXCEPT !.for = k])]

Ready == [type |-> "ready", id |-> 0, status |-> "none", error |-> "none", for |-> 0]

Result(id, status, error) ==
    [type |-> "result", id |-> id, status |-> status, error |-> error, for |-> 0]

\* initCodecs(baseUrl): sets wasmBaseUrl and loads nothing, so it never throws.
initCodecs(ctx) == [ctx EXCEPT !.wasmBaseUrl = "origin/wasm"]

\* self.onmessage for message number k: 'init' answers 'ready' after
\* initCodecs; 'compress' answers an 'error' result at once when wasmBaseUrl
\* is not set, and enters compressImage (first await: decodeImage) otherwise.
selfOnmessage(ctx, k, message) ==
    LET c1 == [ctx EXCEPT !.received = Append(@, message)] IN
    IF message.type = "init" THEN postMessage(initCodecs(c1), k, Ready)
    ELSE IF c1.wasmBaseUrl = ""
    THEN postMessage(c1, k, Result(message.id, "error", "Worker not initialized"))
    ELSE [c1 EXCEPT !.jobs = @ \cup {[for |-> k, id |-> message.id, at |-> "decodeImage"]}]

\* A compressImage without its try/catch: what decoding or encoding throws
\* leaves the handler as an unhandled rejection, and nothing is posted.
compressImage_noCatch(ctx, job, threw) ==
    LET c1 == [ctx EXCEPT !.jobs = @ \ {job}] IN
    IF threw THEN c1
    ELSE IF job.at = "decodeImage"
    THEN [c1 EXCEPT !.jobs = @ \cup {[job EXCEPT !.at = "encodeImage"]}]
    ELSE postMessage(c1, job.for, Result(job.id, "success", "none"))

\* compressImage resumes from the await job is at: what decodeImage or
\* encodeImage threw becomes an 'error' response, a decoded image goes on to
\* encodeImage, an encoded one becomes the 'success' response; the handler
\* posts the response as a 'result'.
compressImage(ctx, job, threw) ==
    LET c1 == [ctx EXCEPT !.jobs = @ \ {job}] IN
    IF threw THEN postMessage(c1, job.for, Result(job.id, "error", "codec"))
    ELSE IF job.at = "decodeImage"
    THEN [c1 EXCEPT !.jobs = @ \cup {[job EXCEPT !.at = "encodeImage"]}]
    ELSE postMessage(c1, job.for, Result(job.id, "success", "none"))

\* The context receives its next message.
ContextMessage(message) ==
    /\ Len(context.received) < MaxMessages
    /\ message \in WorkerMessages
    /\ context' = selfOnmessage(context, Len(context.received) + 1, message)
    /\ UNCHANGED <<appVars, poolTrace, semVars, shown>>

\* decodeImage or encodeImage of one handler settles.
CodecSettles(job, threw) ==
    /\ job \in context.jobs
    /\ context' = compressImage(context, job, threw)
    /\ UNCHANGED <<appVars, poolTrace, semVars, shown>>

\* ----------------------------------------------------------- specification
\* Home and the module state of worker-pool.ts as constructed, on the device
\* that hardwareConcurrency describes.
InitHome ==
    /\ mobile \in BOOLEAN
    /\ settings = [parallelWorkers |-> getDefaultParallelWorkers, format |-> "jpeg"]
    /\ lastRunSettings = NoSettings
    /\ files = <<>>
    /\ isProcessing = FALSE
    /\ poolInstance = 0
    /\ poolSize = 0
    /\ pool = <<>>
    /\ worker = <<>>
    /\ inits = {}
    /\ run = <<>>
    /\ published = <<>>
    /\ client = [t \in 1..MaxTasks |-> NoClient]
    /\ poolTrace = NoTrace

\* The state the page is constructed in.
InitApp ==
    /\ hardwareConcurrency \in 2..MaxCores
    /\ InitHome

InitSem ==
    /\ caller = [c \in 1..MaxCallers |-> "idle"]
    /\ semTrace = [blocked |-> <<>>, resumed |-> <<>>, late |-> {}]

Init ==
    /\ InitApp
    /\ InitSem
    /\ sem = AsyncSemaphore(0)
    /\ shown = NotShown
    /\ context = NewContext

Next ==
    \/ \E k \in 1..NumFiles : handleFilesAdded(k)
    \/ \E n \in 1..(MaxCores - 1) : handleWorkersChange(n)
    \/ handleStartCompression
    \/ \E k \in 1..NumFiles : handleRetryFile(k)
    \/ \E e \in inits : InitDone(e)
    \/ \E e \in inits, k \in 1..MaxCores, how \in {"init-error", "error"} :
          InitFail(e, k, how)
    \/ \E r \in DOMAIN run, i \in 1..NumFiles : PrepareDone(r, i)
    \/ \E r \in DOMAIN run, i \in 1..NumFiles : PrepareFail(r, i, Error("prepare"))
    \/ \E r \in DOMAIN run, i \in 1..NumFiles : Timeout(r, i)
    \/ \E w \in DOMAIN worker, response \in {Success, Failure("compression")} :
          WorkerResult(w, response)

Spec == Init /\ [][Next]_vars

\* The page on a device whose worker slider has a single position (the pool is
\* never resized), with the output format as the setting the user changes.
InitRerun ==
    /\ Init
    /\ getMaxParallelWorkers = 1

NextRerun ==
    \/ \E k \in 1..NumFiles : handleFilesAdded(k)
    \/ \E format \in {"jpeg", "webp"} : handleFormatChange(format)
    \/ handleStartCompression
    \/ \E k \in 1..NumFiles : handleRetryFile(k)
    \/ \E e \in inits : InitDone(e)
    \/ \E e \in inits, k \in 1..MaxCores, how \in {"init-error", "error"} :
          InitFail(e, k, how)
    \/ \E r \in DOMAIN run, i \in 1..NumFiles : PrepareDone(r, i)
    \/ \E r \in DOMAIN run, i \in 1..NumFiles : PrepareFail(r, i, Error("prepare"))
    \/ \E r \in DOMAIN run, i \in 1..NumFiles : Timeout(r, i)
    \/ \E w \in DOMAIN worker, response \in {Success, Failure("compression")} :
          WorkerResult(w, response)

SpecRerun == InitRerun /\ [][NextRerun]_vars

\* The same device with the settings left alone, and with every message a
\* failure can carry: Spec and SpecRerun let prepareFile and the worker fail
\* with one message each, since the text of a message decides nothing there.
NextMessages ==
    \/ \E k \in 1..NumFiles : handleFilesAdded(k)
    \/ handleStartCompression
    \/ \E k \in 1..NumFiles : handleRetryFile(k)
    \/ \E e \in inits : InitDone(e)
    \/ \E r \in DOMAIN run, i \in 1..NumFiles : PrepareDone(r, i)
    \/ \E r \in DOMAIN run, i \in 1..NumFiles, thrown \in PrepareErrors :
          PrepareFail(r, i, thrown)
    \/ \E r \in DOMAIN run, i \in 1..NumFiles : Timeout(r, i)
    \/ \E w \in DOMAIN worker, response \in Responses : WorkerResult(w, response)

SpecMessages == InitRerun /\ [][NextMessages]_vars

\* A stand-alone WorkerPool: getWorkerPool(n) was called once, the pool is
\* initialized by its user and then given MaxTasks tasks directly.
InitPool ==
    /\ hardwareConcurrency \in 2..MaxCores
    /\ mobile = FALSE
    /\ settings = [parallelWorkers |-> getDefaultParallelWorkers, format |-> "jpeg"]
    /\ lastRunSettings = NoSettings
    /\ files = <<>>
    /\ isProcessing = FALSE
    /\ \E n \in 1..MaxPoolWorkers :
          /\ pool = <<WorkerPool(n)>>
          /\ poolSize = n
    /\ poolInstance = 1
    /\ worker = <<>>
    /\ inits = {}
    /\ run = <<>>
    /\ published = <<>>
    /\ client = [t \in 1..MaxTasks |-> NoClient]
    /\ poolTrace = NoTrace
    /\ InitSem
    /\ sem = AsyncSemaphore(0)
    /\ shown = NotShown
    /\ context = NewContext

NextPool ==
    \/ PoolInitialize
    \/ \E e \in inits : InitDone(e)
    \/ \E t \in 1..MaxTasks : PoolCompress(t)
    \/ \E w \in DOMAIN worker, status \in {"success", "error"} : PoolResult(w, status)

SpecPool == InitPool /\ [][NextPool]_vars

\* A stand-alone AsyncSemaphore(n) and its direct callers.
InitSemaphore ==
    /\ InitApp
    /\ InitSem
    /\ \E n \in 1..MaxPermits : sem = AsyncSemaphore(n)
    /\ shown = NotShown
    /\ context = NewContext

NextSemaphore ==
    \/ \E c \in 1..MaxCallers : SemAcquire(c)
    \/ \E c \in 1..MaxCallers : SemRelease(c)

SpecSemaphore == InitSemaphore /\ [][NextSemaphore]_vars

\* One successful compression, for every pair of sizes: the result item is
\* built and FileItem renders it.
InitResult ==
    /\ InitApp
    /\ hardwareConcurrency = 2
    /\ ~mobile
    /\ InitSem
    /\ sem = AsyncSemaphore(0)
    /\ \E original \in 0..MaxOriginalSize, compressed \in 0..MaxCompressedSize :
          shown = [NotShown EXCEPT !.pc = "compressing",
                                   !.originalSize = original,
                                   !.compressedSize = compressed]
    /\ context = NewContext

NextResult ==
    \/ BuildResult
    \/ FileItem

SpecResult == InitResult /\ [][NextResult]_vars

\* The page on every kind of device (hardwareConcurrency 0 stands for a
\* browser that does not report it), up to the worker slider.
InitDevice ==
    /\ hardwareConcurrency \in 0..MaxHardwareConcurrency
    /\ InitHome
    /\ InitSem
    /\ sem = AsyncSemaphore(0)
    /\ shown = NotShown
    /\ context = NewContext

NextDevice ==
    \/ \E k \in 1..NumFiles : handleFilesAdded(k)
    \/ \E n \in 1..MaxHardwareConcurrency : handleWorkersChange(n)

SpecDevice == InitDevice /\ [][NextDevice]_vars

\* The page on a desktop with MaxCores cores when every handshake succeeds,
\* every prepareFile settles and every timer fires, while a worker may answer
\* (with a compressed image) or stay silent for ever.
InitBatch ==
    /\ Init
    /\ hardwareConcurrency = MaxCores
    /\ ~mobile

NextBatch ==
    \/ \E k \in 1..NumFiles : handleFilesAdded(k)
    \/ \E n \in 1..(MaxCores - 1) : handleWorkersChange(n)
    \/ handleStartCompression
    \/ \E k \in 1..NumFiles : handleRetryFile(k)
    \/ \E e \in inits : InitDone(e)
    \/ \E r \in DOMAIN run, i \in 1..NumFiles : PrepareDone(r, i)
    \/ \E r \in DOMAIN run, i \in 1..NumFiles : PrepareFail(r, i, Error("prepare"))
    \/ \E r \in DOMAIN run, i \in 1..NumFiles : Timeout(r, i)
    \/ \E w \in DOMAIN worker : WorkerResult(w, Success)

HandshakesSucceed == \E e \in inits : InitDone(e)

PrepareSettles ==
    \E r \in DOMAIN run, i \in 1..NumFiles :
        PrepareDone(r, i) \/ PrepareFail(r, i, Error("prepare"))

TimersFire == \E r \in DOMAIN run, i \in 1..NumFiles : Timeout(r, i)

SpecBatch ==
    /\ InitBatch
    /\ [][NextBatch]_vars
    /\ WF_vars(HandshakesSucceed)
    /\ WF_vars(PrepareSettles)
    /\ WF_vars(TimersFire)

\* One worker context as constructed, sent MaxMessages messages in any order
\* (a 'compress' before 'init' included); its codecs always settle.
InitContext ==
    /\ InitApp
    /\ hardwareConcurrency = 2
    /\ ~mobile
    /\ InitSem
    /\ sem = AsyncSemaphore(0)
    /\ shown = NotShown
    /\ context = NewContext

NextContext ==
    \/ \E message \in WorkerMessages : ContextMessage(message)
    \/ \E job \in context.jobs, threw \in BOOLEAN : CodecSettles(job, threw)

CodecsSettle == \E job \in context.jobs, threw \in BOOLEAN : CodecSettles(job, threw)

SpecContext == InitContext /\ [][NextContext]_vars /\ WF_vars(CodecsSettle)

\* ===================================================================== claims
Runs == DOMAIN run

Pipelines == {c \in Runs \X (1..NumFiles) : c[2] \in DOMAIN run[c[1]].item}

Item(c) == run[c[1]].item[c[2]]

\* The 'compress' messages posted to a live worker and not yet answered.
Dispatched == UNION {worker[w].tasks : w \in DOMAIN worker}

\* C1 (result routing): the promise returned by a compress() call is resolved
\* only with the result produced by the task of that same call.
C1_ResultRouting ==
    \A c \in Pipelines : Item(c).response \in {NoCall, c}

\* C3 (at-most-N concurrency): while a compressFiles run with
\* settings.parallelWorkers = N is in progress, at most N of its tasks are
\* posted to a worker and not yet answered.
C3_AtMostNDispatched ==
    \A r \in Runs :
        run[r].pc = "running" =>
            Cardinality({task \in Dispatched : task.call[1] = r}) <= run[r].settings

\* C4 (pool sizing): the pool compressFiles acquired has settings.parallelWorkers
\* workers, stays the active pool while the batch runs, and is the pool every
\* task of the run is submitted to.
C4_PoolSizing ==
    \A r \in Runs :
        run[r].pc = "running" =>
            /\ pool[run[r].pool].maxWorkers = run[r].settings
            /\ \A i \in DOMAIN run[r].item :
                  run[r].item[i].pool \in {0, run[r].pool}

\* C5 (idempotent initialize): however many initialize() calls overlap, the
\* worker contexts created for a pool number at most its maxWorkers.
C5_InitializeIdempotent ==
    \A p \in DOMAIN pool :
        Cardinality({w \in DOMAIN worker : worker[w].pool = p}) <= pool[p].maxWorkers

IsPrefix(a, b) == Len(a) <= Len(b) /\ \A k \in DOMAIN a : a[k] = b[k]

\* C6 (FIFO permit fairness): blocked acquire() calls are resumed in the order
\* in which they blocked: the k-th release after exhaustion resumes the k-th
\* oldest waiter.
C6_FIFOPermits == IsPrefix(semTrace.resumed, semTrace.blocked)

\* Three callers blocked on an exhausted semaphore and all three were resumed.
C6_Witness == Len(semTrace.resumed) >= 3

Holders(r) == {i \in DOMAIN run[r].item : run[r].item[i].pc \in {"preparing", "awaiting"}}

Blocked(r) == {i \in DOMAIN run[r].item : run[r].item[i].pc = "blocked"}

\* C7 (preparation bound): in a run with settings.parallelWorkers = N at most N
\* items are between permit acquisition and permit release, and every item
\* that has not got a permit is still parked in the semaphore's wait queue.
C7_PreparationBound ==
    \A r \in Runs :
        run[r].pc = "running" =>
            /\ Cardinality(Holders(r)) <= run[r].settings
            /\ Blocked(r) = Range(run[r].sem.waitQueue)

\* A batch larger than N: every permit is held and an item waits for one.
C7_Witness ==
    \E r \in Runs :
        /\ run[r].pc = "running"
        /\ Cardinality(Holders(r)) = run[r].settings
        /\ Blocked(r) # {}

\* C8 (results in input order): compressFiles resolves only after every item is
\* terminal, with an array as long as the input and result[i].id = files[i].id.
C8_ResultsInInputOrder ==
    \A r \in Runs :
        run[r].pc = "resolved" =>
            /\ Len(run[r].results) = Len(run[r].files)
            /\ \A i \in DOMAIN run[r].files :
                  /\ run[r].item[i].pc = "returned"
                  /\ run[r].results[i].status \in {"done", "error"}
                  /\ run[r].results[i].id = run[r].files[i].id

\* A resolved batch whose second item ended before its first.
C8_Witness ==
    \E r \in Runs :
        /\ run[r].pc = "resolved"
        /\ Len(run[r].order) >= 2
        /\ run[r].order[1] > run[r].order[2]

\* C2 (isolation): a batch with failing items never rejects; it resolves when
\* its last item ends, every item that failed (worker error result, timeout,
\* prepareFile exception) is returned 'error' and every other item 'done'.
C2_Isolation ==
    \A r \in Runs :
        /\ run[r].pc = "rejected" =>
               \A i \in DOMAIN run[r].item : run[r].item[i].pc = "created"
        /\ (run[r].pc = "running" /\ run[r].item # <<>>) =>
               \E i \in DOMAIN run[r].item : run[r].item[i].pc # "returned"
        /\ run[r].pc = "resolved" =>
               \A i \in DOMAIN run[r].item :
                   run[r].results[i].status =
                       IF run[r].item[i].cause = "success" THEN "done" ELSE "error"

\* A resolved batch with a failed item and a sibling that is 'done'.
C2_Witness ==
    \E r \in Runs :
        /\ run[r].pc = "resolved"
        /\ \E i, j \in DOMAIN run[r].results :
              /\ run[r].results[i].status = "error"
              /\ run[r].results[j].status = "done"

Siblings(c) == {d \in Pipelines : d[1] = c[1] /\ d # c}

\* The worker that was running the task of call c answers it with a
\* compressed image in this step.
PostsSuccess(c) ==
    \E w \in DOMAIN worker :
        /\ WorkerResult(w, Success)
        /\ \E task \in worker[w].tasks \ worker'[w].tasks : task.call = c

\* C9 (timeout): an item whose timer fires is published and returned 'error'
\* with the timeout message, and every other item of its batch whose worker
\* answers with a compressed image is 'done' once that answer is posted.
C9_Timeout ==
    [][\A c \in Pipelines :
          /\ (Item(c).cause # "timeout" /\ Item(c)'.cause = "timeout") =>
                /\ Item(c)'.ret = [run[c[1]].files[c[2]] EXCEPT
                                      !.status = "error", !.error = "timeout"]
                /\ \E k \in DOMAIN files' : files'[k] = Item(c)'.ret
          /\ ( /\ PostsSuccess(c)
               /\ Item(c).cause # "timeout"
               /\ \E d \in Siblings(c) : Item(d).cause = "timeout" ) =>
                Item(c)'.ret.status = "done"]_vars

\* Held(c): the task of call c is still on its way to an answer: waiting for
\* its pool's workers, queued in a pool, or registered as pending.
Held(c) ==
    \/ \E e \in inits : e.awaiter.kind = "call" /\ e.awaiter.task.call = c
    \/ \E p \in DOMAIN pool :
          \/ \E k \in DOMAIN pool[p].taskQueue : pool[p].taskQueue[k].call = c
          \/ \E id \in ItemIds : pool[p].pendingTasks[id].callback = c

\* C10 (retry frame): a retry changes the published entry of the retried item
\* only, and leaves every item of a batch in flight as it was: same status,
\* same result, and a 'processing' sibling's task still held by the pool.
C10_RetryFrame ==
    [][\A k \in DOMAIN files :
          handleRetryFile(k) =>
             /\ \A j \in DOMAIN files : j # k => files'[j] = files[j]
             /\ \A c \in Pipelines :
                   /\ Item(c)' = Item(c)
                   /\ (Item(c).pc = "awaiting" /\ Held(c)) => Held(c)']_vars

Legal(a, b) ==
    \/ b = "pending"
    \/ a = "pending" /\ b = "processing"
    \/ a = "processing" /\ b \in {"done", "error"}

\* C11 (item state machine): the statuses shown for a file run pending ->
\* processing -> (done | error); 'done' and 'error' are never shown without
\* 'processing' just before, and after them only a reset to 'pending' (retry
\* or re-run) follows.
C11_ItemStateMachine ==
    \A k \in DOMAIN published :
        /\ published[k][1] = "pending"
        /\ \A n \in 1..(Len(published[k]) - 1) :
              Legal(published[k][n], published[k][n + 1])

WellFormed(f) ==
    /\ f.status = "done" => f.compressedBlob # NoCall /\ f.error = "none"
    /\ f.status = "error" => f.error # "none" /\ f.compressedBlob = NoCall
    /\ f.status \in {"pending", "processing"} =>
          f.compressedBlob = NoCall /\ f.error = "none"

\* C12 (item invariant): every item the page shows, every item handed to a
\* run and every item a pipeline or compressFiles returns has a blob and no
\* error when 'done', an error and no blob when 'error', and neither when
\* 'pending' or 'processing'.
C12_ItemInvariant ==
    /\ \A k \in DOMAIN files : WellFormed(files[k])
    /\ \A r \in Runs :
          /\ \A i \in DOMAIN run[r].files : WellFormed(run[r].files[i])
          /\ \A i \in DOMAIN run[r].item :
                run[r].item[i].pc = "returned" => WellFormed(run[r].item[i].ret)
          /\ \A i \in DOMAIN run[r].results : WellFormed(run[r].results[i])

Follows(k, a, b) ==
    \E n \in 1..(Len(published[k]) - 1) :
        published[k][n] = a /\ published[k][n + 1] = b

\* A 'done' item was re-compressed to 'done' and an 'error' item was retried
\* to a terminal status.
C12_Witness ==
    /\ \E k \in DOMAIN files :
          Follows(k, "done", "pending") /\ files[k].status = "done"
    /\ \E k \in DOMAIN files :
          Follows(k, "error", "pending") /\ files[k].status \in {"done", "error"}

\* InFlight(p): the 'compress' messages posted to workers of pool p and not
\* yet answered.
InFlight(p) ==
    UNION {worker[w].tasks : w \in {v \in DOMAIN worker : worker[v].pool = p}}

\* C13 (pool bookkeeping): in an initialized pool no worker is both available
\* and the worker of a pendingTasks entry, every task in flight is the task
\* registered in pendingTasks under its id, and no task is both queued and
\* registered.
C13_PoolBookkeeping ==
    \A p \in DOMAIN pool :
        pool[p].isInitialized =>
            /\ \A id \in ItemIds :
                  pool[p].pendingTasks[id].worker # 0 =>
                      pool[p].pendingTasks[id].worker \notin Range(pool[p].availableWorkers)
            /\ \A task \in InFlight(p) :
                  /\ pool[p].pendingTasks[task.id].callback = task.call
                  /\ task \notin Range(pool[p].taskQueue)
            /\ \A k \in DOMAIN pool[p].taskQueue :
                  pool[p].pendingTasks[pool[p].taskQueue[k].id].callback
                      # pool[p].taskQueue[k].call

\* C14 (FIFO dispatch): queued tasks are dispatched in submission order; on a
\* pool of one worker at most one task is in flight, tasks complete in
\* submission order, and when all MaxTasks tasks were submitted before any
\* completed, queueLength then falls by one with every completion:
\* MaxTasks - 1, ..., 1, 0.
C14_FIFODispatch ==
    /\ IsPrefix(poolTrace.dispatched, poolTrace.submitted)
    /\ (poolInstance # 0 /\ pool[poolInstance].maxWorkers = 1) =>
          /\ Cardinality(InFlight(poolInstance)) <= 1
          /\ IsPrefix(poolTrace.completed, poolTrace.submitted)
          /\ ( /\ Len(poolTrace.queueLength) >= MaxTasks
               /\ poolTrace.queueLength[MaxTasks] = MaxTasks - 1 ) =>
                \A n \in DOMAIN poolTrace.queueLength :
                    n > MaxTasks =>
                        poolTrace.queueLength[n] = Max(0, MaxTasks - 1 - (n - MaxTasks))

\* One worker, MaxTasks tasks submitted before the first completed, and all
\* of them completed.
C14_Witness ==
    /\ pool[poolInstance].maxWorkers = 1
    /\ Len(poolTrace.queueLength) >= MaxTasks
    /\ poolTrace.queueLength[MaxTasks] = MaxTasks - 1
    /\ Len(poolTrace.completed) = MaxTasks

\* The counters of the caller behind a task's resolver.
Caller(call) == IF call[1] = 0 THEN client[call[2]] ELSE Item(call)

\* C15 (exactly-once execution): no task is posted to a worker twice and no
\* caller's resolver is called twice; a queued task has not been posted and
\* does not wait while a worker of its initialized pool is free; a task in
\* flight has been posted once.
C15_ExactlyOnce ==
    /\ \A c \in Pipelines : Item(c).posts <= 1 /\ Item(c).answers <= 1
    /\ \A t \in DOMAIN client : client[t].posts <= 1 /\ client[t].answers <= 1
    /\ \A p \in DOMAIN pool :
          /\ \A k \in DOMAIN pool[p].taskQueue :
                Caller(pool[p].taskQueue[k].call).posts = 0
          /\ \A task \in InFlight(p) : Caller(task.call).posts = 1
          /\ pool[p].isInitialized =>
                pool[p].taskQueue = <<>> \/ pool[p].availableWorkers = <<>>

\* HeldBy(p, c): pool p holds the resolver of call c, in its queue or in
\* pendingTasks.
HeldBy(p, c) ==
    \/ \E k \in DOMAIN pool[p].taskQueue : pool[p].taskQueue[k].call = c
    \/ \E id \in ItemIds : pool[p].pendingTasks[id].callback = c

\* C16 (terminate): when the active pool is terminated (getWorkerPool replaces
\* it), every worker context created for it is terminated, its workers,
\* availableWorkers, taskQueue and pendingTasks are empty and it is
\* uninitialized, and the resolver of every task it held is held by no pool
\* any more, so that nothing can settle that task's promise.
C16_Terminate ==
    [][(poolInstance # 0 /\ poolInstance' # poolInstance) =>
          LET p == poolInstance IN
          /\ \A w \in DOMAIN worker :
                worker[w].pool = p => worker'[w].state = "terminated"
          /\ pool'[p] = WorkerPool(pool[p].maxWorkers)
          /\ \A c \in Pipelines : HeldBy(p, c) => ~Held(c)']_vars

Live(w) == worker[w].state # "terminated"

\* C17 (one active pool): the singleton has the size that was last requested,
\* at most one pool has live worker contexts, and every context created by a
\* pool that was replaced has been terminated.
C17_OneActivePool ==
    /\ poolInstance # 0 => pool[poolInstance].maxWorkers = poolSize
    /\ Cardinality({worker[w].pool : w \in {v \in DOMAIN worker : Live(v)}}) <= 1
    /\ \A w \in DOMAIN worker : worker[w].pool # poolInstance => ~Live(w)

C19_RejectsOnlyOnInitFailure ==
    [][\A r \in DOMAIN run' :
          /\ (run'[r].pc = "rejected" /\ (r \in DOMAIN run => run[r].pc # "rejected")) =>
                /\ r \in DOMAIN run
                /\ run[r].pc = "init"
                /\ \E e \in inits :
                      /\ e.awaiter.kind = "run"
                      /\ e.awaiter.run = r
                      /\ \E k \in DOMAIN e.ws, how \in {"init-error", "error"} :
                            InitFail(e, k, how)
          /\ run'[r].pc = "rejected" =>
                /\ run'[r].order = <<>>
                /\ run'[r].results = <<>>
                /\ \A i \in DOMAIN run'[r].item : run'[r].item[i] = NewItem
          /\ (r \in DOMAIN run /\ run[r].pc \in {"running", "resolved"}) =>
                run'[r].pc \in {"running", "resolved"}]_vars

\* A batch of two files was rejected, and both files are still 'pending'.
C19_Witness ==
    \E r \in Runs :
        /\ run[r].pc = "rejected"
        /\ Len(run[r].files) = 2
        /\ \A i \in DOMAIN run[r].files :
              \E k \in DOMAIN files :
                  files[k].id = run[r].files[i].id /\ files[k].status = "pending"

\* C20 (compression errors are local): for every task a worker is running,
\* its 'error' result leaves the pools, the workers, the batches' progress and
\* every item and file of another id exactly as its 'success' result would,
\* with the worker back in availableWorkers or on the next queued task; the
\* item whose call it answers becomes 'error'.
C20_ErrorResultIsLocal ==
    \A w \in DOMAIN worker :
        worker[w].state = "ready" =>
            \A task \in worker[w].tasks :
                LET E == onmessage(St, w, task, Failure("compression"))
                    S == onmessage(St, w, task, Success)
                    p == worker[w].pool
                    entry == pool[p].pendingTasks[task.id]
                    c == entry.callback
                IN  /\ E.pool = S.pool
                    /\ E.worker = S.worker
                    /\ E.inits = S.inits
                    /\ E.isProcessing = S.isProcessing
                    /\ \/ w \in Range(E.pool[p].availableWorkers)
                       \/ E.worker[w].tasks # worker[w].tasks \ {task}
                    /\ \A k \in DOMAIN files :
                          files[k].id # task.id => E.files[k] = S.files[k]
                    /\ \A r \in Runs :
                          /\ E.run[r].pc = S.run[r].pc
                          /\ \A i \in DOMAIN run[r].item :
                                run[r].files[i].id # task.id =>
                                    E.run[r].item[i] = S.run[r].item[i]
                    /\ (entry.worker # 0 /\ c[1] # 0 /\ Item(c).pc = "awaiting") =>
                          /\ E.run[c[1]].item[c[2]].ret.status = "error"
                          /\ S.run[c[1]].item[c[2]].ret.status = "done"
                          /\ \A k \in DOMAIN files :
                                files[k].id = task.id => E.files[k].status = "error"

\* On a pool of one worker with no other context, an item ended with the
\* worker's error result and the next item of the batch then ended 'done' on
\* the same worker.
C20_Witness ==
    \E r \in Runs :
        /\ pool[run[r].pool].maxWorkers = 1
        /\ Cardinality({w \in DOMAIN worker : worker[w].pool = run[r].pool}) = 1
        /\ Len(run[r].order) = 2
        /\ run[r].item[run[r].order[1]].cause = "compression"
        /\ run[r].item[run[r].order[2]].cause = "success"
        /\ \A i \in DOMAIN run[r].item : run[r].item[i].pool = run[r].pool

TimedOutEntry(p, id) ==
    LET entry == pool[p].pendingTasks[id]
    IN  /\ entry.worker # 0
        /\ entry.callback[1] # 0
        /\ Item(entry.callback).cause = "timeout"

\* C22 (a timeout does not reclaim the context): the step in which an item's
\* timeout expires changes no pool and no worker, and afterwards the task's
\* pendingTasks entry stays as it is, with its worker neither in
\* availableWorkers nor terminated, in every step except the one in which that
\* worker posts a result and the one in which the pool is terminated.
C22_TimeoutKeepsContext ==
    [][/\ (\E r \in Runs, i \in 1..NumFiles : Timeout(r, i)) =>
              pool' = pool /\ worker' = worker
       /\ \A p \in DOMAIN pool, id \in ItemIds :
              TimedOutEntry(p, id) =>
                  LET entry == pool[p].pendingTasks[id]
                  IN  \/ /\ pool'[p].pendingTasks[id] = entry
                         /\ entry.worker \notin Range(pool'[p].availableWorkers)
                         /\ worker'[entry.worker].state = worker[entry.worker].state
                      \/ \E response \in Responses : WorkerResult(entry.worker, response)
                      \/ poolInstance = p /\ poolInstance' # p]_vars

\* Every task worker w is running has no entry in its pool's pendingTasks.
Orphan(w) ==
    \A task \in worker[w].tasks :
        pool[worker[w].pool].pendingTasks[task.id].worker = 0

\* C23 (orphan results): a 'result' whose id has no pendingTasks entry is
\* dropped: no promise is resolved and no item or file changes, the handler
\* runs to its end (the worker is back in availableWorkers or on the next
\* queued task, the only change of pendingTasks being that task's entry), and
\* the pool stays as initialized as it was.
C23_OrphanResultDropped ==
    [][\A w \in DOMAIN worker :
          ((\E response \in Responses : WorkerResult(w, response)) /\ Orphan(w)) =>
              LET p == worker[w].pool
              IN  /\ files' = files
                  /\ client' = client
                  /\ isProcessing' = isProcessing
                  /\ \A c \in Pipelines :
                        /\ Item(c)'.answers = Item(c).answers
                        /\ Item(c)'.response = Item(c).response
                        /\ Item(c)'.pc = Item(c).pc
                        /\ Item(c)'.ret = Item(c).ret
                  /\ worker'[w].state = "ready"
                  /\ \/ w \in Range(pool'[p].availableWorkers)
                     \/ worker'[w].tasks # {}
                  /\ pool'[p].isInitialized = pool[p].isInitialized
                  /\ IF pool[p].taskQueue = <<>>
                     THEN pool'[p].pendingTasks = pool[p].pendingTasks
                     ELSE LET next == Head(pool[p].taskQueue)
                          IN  /\ pool'[p].taskQueue = Tail(pool[p].taskQueue)
                              /\ next \in worker'[w].tasks
                              /\ pool'[p].pendingTasks =
                                    [pool[p].pendingTasks EXCEPT
                                        ![next.id] = [worker |-> w, callback |-> next.call]]]_vars

\* On the only pool there ever was, more tasks were posted than promises
\* resolved and no task is in flight, so a result was dropped; the pool is
\* initialized with every worker available again.
C23_Witness ==
    /\ Len(pool) = 1
    /\ poolInstance = 1
    /\ pool[1].isInitialized
    /\ Dispatched = {}
    /\ Len(pool[1].availableWorkers) >= pool[1].maxWorkers
    /\ \E c \in Pipelines : Item(c).posts = 1 /\ Item(c).answers = 0
    /\ inits = {}

\* The integer nearest to (original - compressed) / original * 100 as a real
\* number, a half rounding up as Math.round does.
RoundedPercent(original, compressed) ==
    (200 * (original - compressed) + original) \div (2 * original)

\* C24 (percentSaved formula): the percentSaved of a result item is
\* round((originalSize - compressedSize) / originalSize * 100), and 0 when
\* originalSize is 0.
C24_PercentSavedFormula ==
    shown.pc \in {"done", "rendered"} =>
        shown.percentSaved =
            IF shown.originalSize = 0 THEN 0
            ELSE RoundedPercent(shown.originalSize, shown.compressedSize)

DeviceMemories == {0, 1, 2, 4, 8}

\* The tiers a device can be put in: by its memory signal when there is one,
\* by heuristics on a mobile device without one, 'high' otherwise.
Tiers(deviceMemory) ==
    IF deviceMemory # 0
    THEN {IF deviceMemory <= 2 THEN "low"
          ELSE IF deviceMemory <= 4 THEN "medium" ELSE "high"}
    ELSE IF mobile THEN {"low", "medium", "high"}
    ELSE {"high"}

Cap(tier, cores) ==
    IF tier = "low" THEN 1
    ELSE IF tier = "medium" THEN Min(2, cores)
    ELSE IF mobile THEN Min(3, cores)
    ELSE Min(8, cores)

\* C26 (maxParallelism tiering): whatever the device-memory signal, the mobile
\* flag and hardwareConcurrency are, getMaxParallelWorkers() is the cap of the
\* device's tier applied to cores = max(1, hardwareConcurrency - 1).
C26_MaxParallelismTiering ==
    \A deviceMemory \in DeviceMemories :
        \E tier \in Tiers(deviceMemory) :
            getMaxParallelWorkers = Cap(tier, Max(1, hardwareConcurrency - 1))

\* C27 (defaultParallelism): getDefaultParallelWorkers() lies in
\* 1..getMaxParallelWorkers(), is min(3, max) on a mobile device and max on a
\* desktop device, and is what the worker setting starts at.
C27_DefaultParallelism ==
    /\ getDefaultParallelWorkers \in 1..getMaxParallelWorkers
    /\ getDefaultParallelWorkers =
           IF mobile THEN Min(3, getMaxParallelWorkers) ELSE getMaxParallelWorkers
    /\ files = <<>> => settings.parallelWorkers = getDefaultParallelWorkers
    /\ files = <<>> =>
           settings.parallelWorkers =
               IF mobile
               THEN Min(3, Max(1, (IF hardwareConcurrency = 0 THEN 4
                                   ELSE hardwareConcurrency) - 1))
               ELSE Max(1, (IF hardwareConcurrency = 0 THEN 4
                            ELSE hardwareConcurrency) - 1)

\* A mobile device with more than three worker positions starts at 3.
C27_Witness ==
    /\ mobile
    /\ getMaxParallelWorkers > 3
    /\ files = <<>>
    /\ settings.parallelWorkers = 3

\* Pipeline d is the retry of the item whose pipeline c timed out, submitted
\* to the same pool.
RetryOf(d, c) ==
    /\ c[1] < d[1]
    /\ run[d[1]].by = "retry"
    /\ run[d[1]].files[d[2]].id = run[c[1]].files[c[2]].id
    /\ Item(c).cause = "timeout"
    /\ Item(c).pool # 0
    /\ Item(d).pool = Item(c).pool

\* C28 (retry under a reused id): the compress() promise of a retry is never
\* resolved with the late result of the timed-out first task of the same
\* item, only with the result of the retry's own task; and once both tasks
\* have been answered, both workers are back in availableWorkers.
C28_RetryGetsOwnResult ==
    \A c, d \in Pipelines :
        RetryOf(d, c) =>
            /\ Item(d).response # c
            /\ Item(d).response \in {NoCall, d}
            /\ LET p == Item(d).pool
               IN  ( /\ poolInstance = p
                     /\ pool[p].isInitialized
                     /\ Item(c).posts = 1
                     /\ Item(d).posts = 1
                     /\ \A w \in DOMAIN worker :
                           worker[w].pool = p => worker[w].tasks = {} ) =>
                       \A w \in Range(pool[p].workers) :
                           w \in Range(pool[p].availableWorkers)

\* C29 (no barging): a release() with waiters queued hands the permit to the
\* oldest waiter and leaves the counter alone (at 0), so an acquire() issued
\* right after it by anyone gets no permit and queues behind the waiters left.
C29_NoBarging ==
    [][\A c \in 1..MaxCallers :
          (SemRelease(c) /\ sem.waitQueue # <<>>) =>
              /\ sem.permits = 0
              /\ sem'.permits = sem.permits
              /\ sem'.waitQueue = Tail(sem.waitQueue)
              /\ caller'[Head(sem.waitQueue)] = "holding"
              /\ \A d \in 1..MaxCallers :
                    /\ ~acquire(sem', d).granted
                    /\ acquire(sem', d).sem.waitQueue = Append(Tail(sem.waitQueue), d)]_vars

\* A caller that called acquire() after a permit had been handed over is
\* queued behind a waiter that was there before it.
C29_Witness ==
    /\ Len(sem.waitQueue) >= 2
    /\ sem.waitQueue[Len(sem.waitQueue)] \in semTrace.late
    /\ sem.waitQueue[1] \notin semTrace.late
    /\ sem.permits = 0

\* A step in which compress() queues its task (at once on an initialized pool,
\* after its `await this.initialize()` otherwise) or a 'result' is handled.
CompressOrResult ==
    \/ \E r \in Runs, i \in 1..NumFiles : PrepareDone(r, i)
    \/ \E e \in inits : e.awaiter.kind = "call" /\ InitDone(e)
    \/ \E w \in DOMAIN worker, response \in Responses : WorkerResult(w, response)
    \/ \E t \in 1..MaxTasks : PoolCompress(t)
    \/ \E w \in DOMAIN worker, status \in {"success", "error"} : PoolResult(w, status)

\* C30 (work conservation): after every compress() call and every handled
\* 'result', no initialized pool has a task in taskQueue and a worker in
\* availableWorkers at the same time.
C30_WorkConservation ==
    [][CompressOrResult =>
          \A p \in DOMAIN pool' :
              pool'[p].isInitialized =>
                  ~(pool'[p].taskQueue # <<>> /\ pool'[p].availableWorkers # <<>>)]_vars

\* C31 (no double dispatch): no worker has two 'compress' messages
\* outstanding, no worker is listed twice in availableWorkers, and a worker
\* listed in availableWorkers has no outstanding task.
C31_NoDoubleDispatch ==
    /\ \A w \in DOMAIN worker : Cardinality(worker[w].tasks) <= 1
    /\ \A p \in DOMAIN pool :
          LET available == pool[p].availableWorkers IN
          /\ \A j, k \in DOMAIN available : available[j] = available[k] => j = k
          /\ \A k \in DOMAIN available : worker[available[k]].tasks = {}

\* A worker is back in availableWorkers after its result was handled while
\* another worker of the same pool is still on a task.
C31_Witness ==
    \E p \in DOMAIN pool :
        /\ pool[p].isInitialized
        /\ pool[p].availableWorkers # <<>>
        /\ \E w \in DOMAIN worker : worker[w].pool = p /\ worker[w].tasks # {}
        /\ \E c \in Pipelines : Item(c).pool = p /\ Item(c).answers = 1

\* C32 (progress publication): the pipeline of an item has published nothing
\* before it starts, the 'processing' item while it runs, and the 'processing'
\* item followed by one terminal item once it has returned; that last item is
\* the one it returned and the one in compressFiles' result array.
C32_ProgressPublication ==
    \A c \in Pipelines :
        LET progress == Item(c).progress
            processing == [run[c[1]].files[c[2]] EXCEPT !.status = "processing"]
        IN  /\ Item(c).pc \in {"created", "blocked"} => progress = <<>>
            /\ Item(c).pc \in {"preparing", "awaiting"} => progress = <<processing>>
            /\ Item(c).pc = "returned" =>
                  /\ Len(progress) = 2
                  /\ progress[1] = processing
                  /\ progress[2].status \in {"done", "error"}
                  /\ progress[2] = Item(c).ret
            /\ run[c[1]].pc = "resolved" =>
                  run[c[1]].results[c[2]] = progress[Len(progress)]

\* A resolved batch with an item published 'done' and one published 'error'
\* after a timeout.
C32_Witness ==
    \E r \in Runs :
        /\ run[r].pc = "resolved"
        /\ \E i, j \in DOMAIN run[r].item :
              /\ run[r].item[i].progress[2].status = "done"
              /\ run[r].item[j].progress[2].status = "error"
              /\ run[r].item[j].cause = "timeout"

\* The messages the context posted for the message it received k-th.
PostedFor(k) == SelectSeq(context.posted, LAMBDA m : m.for = k)

\* The handler of the message received k-th is still inside compressImage.
Compressing(k) == \E job \in context.jobs : job.for = k

\* C33 (worker reply protocol): a context posts one 'result' for every
\* 'compress' it receives - none while compressImage runs, then exactly one
\* with the request's id and status 'success' or 'error' - and one 'ready' or
\* 'init-error' for every 'init'; every 'compress' is answered eventually.
C33_ReplyProtocol ==
    /\ [](\A k \in DOMAIN context.received :
             LET message == context.received[k]
                 posted == PostedFor(k)
             IN  IF message.type = "init"
                 THEN /\ Len(posted) = 1
                      /\ posted[1].type \in {"ready", "init-error"}
                 ELSE IF Compressing(k) THEN posted = <<>>
                 ELSE /\ Len(posted) = 1
                      /\ posted[1].type = "result"
                      /\ posted[1].id = message.id
                      /\ posted[1].status \in {"success", "error"})
    /\ \A k \in 1..MaxMessages :
          (Len(context.received) >= k) ~> (Len(context.received) >= k /\ PostedFor(k) # <<>>)

\* The context answered a 'compress' that came before 'init' with an 'error'
\* result, and later ones with a 'success' and with an 'error' result.
C33_Witness ==
    /\ context.jobs = {}
    /\ Len(context.received) = MaxMessages
    /\ context.received[1].type = "compress"
    /\ PostedFor(1)[1].status = "error"
    /\ \E j, k \in 3..MaxMessages :
          /\ context.received[j].type = "compress"
          /\ context.received[k].type = "compress"
          /\ Len(PostedFor(j)) = 1 /\ PostedFor(j)[1].status = "success"
          /\ Len(PostedFor(k)) = 1 /\ PostedFor(k)[1].status = "error"

\* Worker w posts, in this step, the result of the task of call c, whose
\* pipeline has already ended with the timeout.
LateResult(w, c) ==
    /\ Item(c).cause = "timeout"
    /\ worker[w].tasks = {[id |-> run[c[1]].files[c[2]].id, call |-> c]}
    /\ \E response \in Responses : WorkerResult(w, response)

\* C34 (late result after timeout): when a worker posts the result of a task
\* whose caller has timed out, the pipeline's returned item stays the 'error'
\* item, nothing more is published for the item, the task's pendingTasks entry
\* is gone, and the worker is back in availableWorkers or, when a task was
\* queued, on the oldest queued task.
C34_LateResult ==
    [][\A w \in DOMAIN worker, c \in Pipelines :
          LateResult(w, c) =>
              LET p == worker[w].pool
                  id == run[c[1]].files[c[2]].id
                  queue == pool[p].taskQueue
              IN  /\ Item(c)'.ret = Item(c).ret
                  /\ Item(c)'.ret.status = "error"
                  /\ Item(c)'.progress = Item(c).progress
                  /\ \A k \in DOMAIN files :
                        files[k].id = id =>
                            /\ published'[k] = published[k]
                            /\ files'[k] = files[k]
                  /\ IF queue = <<>>
                     THEN /\ pool'[p].pendingTasks[id] = NoEntry
                          /\ w \in Range(pool'[p].availableWorkers)
                     ELSE /\ pool'[p].taskQueue = Tail(queue)
                          /\ worker'[w].tasks = {Head(queue)}
                          /\ pool'[p].pendingTasks[id] =
                                IF Head(queue).id = id
                                THEN [worker |-> w, callback |-> Head(queue).call]
                                ELSE NoEntry]_vars

\* C35 (semaphore conservation): the AsyncSemaphore that compressFiles
\* creates with n permits always has 0 <= permits <= n, permits plus the items
\* holding a permit equal to n, and waiters only when permits = 0; when the
\* batch resolves, whatever its items ended as, permits = n and nobody waits.
C35_SemaphoreConservation ==
    \A r \in Runs :
        run[r].pc \in {"running", "resolved"} =>
            LET n == concurrencyLimit(run[r].settings)
                semaphore == run[r].sem
            IN  /\ 0 <= semaphore.permits
                /\ semaphore.permits <= n
                /\ semaphore.permits + Cardinality(Holders(r)) = n
                /\ semaphore.waitQueue # <<>> => semaphore.permits = 0
                /\ run[r].pc = "resolved" =>
                      /\ semaphore.permits = n
                      /\ semaphore.waitQueue = <<>>

\* A batch of two items on one permit has resolved: the item that held the
\* permit ended 'error' and handed it to the waiter, which ended 'done'.
C35_Witness ==
    \E r \in Runs :
        /\ run[r].pc = "resolved"
        /\ concurrencyLimit(run[r].settings) = 1
        /\ Len(run[r].results) = 2
        /\ run[r].results[1].status = "error"
        /\ run[r].results[2].status = "done"

\* C36 (batch termination): every compressFiles invocation eventually
\* settles, whether or not its workers answer and whether or not its pool is
\* replaced meanwhile, as long as handshakes succeed, prepareFile settles and
\* the timers fire: again and again no batch is unsettled (a settled batch
\* stays settled, so no batch is unsettled for ever).
C36_BatchTermination ==
    []<>(\A r \in Runs : run[r].pc \in {"resolved", "rejected"})

\* A batch has resolved although the task of one of its items was posted to
\* a worker and never answered, its pool having been terminated and replaced.
C36_Witness ==
    \E c \in Pipelines :
        /\ run[c[1]].pc = "resolved"
        /\ Item(c).cause = "timeout"
        /\ Item(c).posts = 1
        /\ Item(c).answers = 0
        /\ Item(c).pool # poolInstance
        /\ pool[Item(c).pool].workers = <<>>

\* The activeWorkers getter of pool p.
activeWorkers(p) == pool[p].maxWorkers - Len(pool[p].availableWorkers)

\* C37 (pool counters): availableWorkers never holds more than maxWorkers
\* workers, so activeWorkers is between 0 and maxWorkers, and while the pool
\* is initialized activeWorkers is the number of tasks posted to a worker and
\* not yet answered.
C37_PoolCounters ==
    \A p \in DOMAIN pool :
        /\ Len(pool[p].availableWorkers) <= pool[p].maxWorkers
        /\ activeWorkers(p) \in 0..pool[p].maxWorkers
        /\ pool[p].isInitialized => activeWorkers(p) = Cardinality(InFlight(p))

\* C38 (terminate during initialization): when an initialize() finishes on a
\* pool that getWorkerPool terminated and replaced while the handshakes were
\* awaited, the pool is not marked initialized and none of its worker
\* contexts is live.
C38_TerminateDuringInit ==
    [][\A e \in inits :
          (InitDone(e) /\ e.pool # poolInstance) =>
              /\ ~pool'[e.pool].isInitialized
              /\ \A w \in DOMAIN worker' :
                    worker'[w].pool = e.pool => ~Live(w)']_vars

====
